---- MODULE Spec2Model ----
(***************************************************************************)
(* Model of backon's RetryWithContext (src/backon/src/retry_with_context.rs)*)
(* The driver is a hand-written future: a builder surface (new, sleep,      *)
(* context, when, notify) and a poll function looping over the three-state  *)
(* enum State { Idle, Polling, Sleeping }.  Each arm of poll's match is one  *)
(* action; pc records whether control is inside poll or back at the caller. *)
(* The operation, its awaitable, the sleeper's awaitable and the backoff    *)
(* are the environment: their outcomes are drawn from small sets.           *)
(*                                                                         *)
(* Environment discipline assumed throughout:                              *)
(*  - the builder methods take self by value, so they run only before the  *)
(*    first poll;                                                          *)
(*  - the caller does not poll the driver again after Poll::Ready or after *)
(*    a panic;                                                             *)
(*  - future_fn, the predicate, notify and the sleeper do not panic;       *)
(*  - the caller may abandon (drop) the driver whenever poll is not        *)
(*    running and the driver has not resolved.                             *)
(* The backoff is either a finite schedule or one that repeats for ever;   *)
(* on the latter the number of attempts explored is capped by MaxAttempts. *)
(* log is a history variable: it records, in order, every call the driver  *)
(* made to its collaborators and what came back.                           *)
(***************************************************************************)
EXTENDS Integers, Sequences, FiniteSets, TLC

\* ---- bounds and value domains ----
MaxDelays == 2                 \* longest backoff schedule explored
MaxAttempts == 3               \* attempts explored on a backoff that never exhausts

Ctxs     == {0, 1, 2}          \* context values (opaque to the driver)
Errs     == {1, 2}             \* error values E
Vals     == {10, 11}           \* success values T
Delays   == {1, 2}             \* Duration values
Sleepers == {"s1"}             \* user sleepers passed to sleep()
Notifiers == {"n1"}            \* user callbacks passed to notify()
DefaultSleeper == "DefaultSleeper"
DefaultNotify  == "noop"

\* Option<T>: None is the empty tuple, Some(x) a one-element tuple
None    == <<>>
Some(x) == <<x>>
Unwrap(o) == o[1]

\* Result<T, E>
Ok(v)  == [ok |-> TRUE,  val |-> v]
Err(e) == [ok |-> FALSE, val |-> e]
Results == {Ok(v) : v \in Vals} \cup {Err(e) : e \in Errs}

RECURSIVE SeqsUpTo(_, _)
SeqsUpTo(S, n) ==
    IF n = 0 THEN {<<>>}
    ELSE LET shorter == SeqsUpTo(S, n - 1)
         IN  shorter \cup {Append(s, x) : s \in {t \in shorter : Len(t) = n - 1}, x \in S}

Schedules == SeqsUpTo(Delays, MaxDelays)

ContextFault == "context must be valid"
SleepFault   == "sleep must be set before context"

VARIABLES
    schedule,    \* the delays the backoff built by the builder will yield, in order
    backoff,     \* field backoff: the delays the schedule has yet to yield
    retryable,   \* field retryable: the set of errors the predicate accepts
    notify,      \* field notify: which callback is installed
    sleep_fn,    \* field sleep_fn: which sleeper is installed
    state,       \* field state: Idle / Polling / Sleeping
    pc,          \* "caller": between calls, not yet resumed or pending;
                 \* "polling": inside poll's loop; "ready": poll returned Ready;
                 \* "panicked": a panic unwound; "dropped": the caller abandoned
                 \* the driver before it resolved
    last,        \* the last method called on the driver
    out,         \* the value poll returned in Poll::Ready, if any
    fault,       \* panic message, "" when none
    log,         \* history: calls the driver made and what they returned
    endless,     \* the backoff never yields None: it repeats schedule for ever
    given,       \* history: the context last passed to context(), if any
    dropped      \* what the teardown of the driver dropped, once it was abandoned

vars == <<schedule, backoff, retryable, notify, sleep_fn, state, pc, last, out, fault, log,
          endless, given, dropped>>

\* ---- enum State ----
Idle(ctx)          == [tag |-> "Idle", ctx |-> ctx]
Polling(fut)       == [tag |-> "Polling", fut |-> fut]
Sleeping(ctx, sl)  == [tag |-> "Sleeping", ctx |-> ctx, sl |-> sl]

\* the awaitable future_fn(ctx) returns: it owns the context until it completes
Fut(ctx)     == [ctx |-> Some(ctx)]
FutDone      == [ctx |-> None]
\* the awaitable sleep_fn.sleep(dur) returns
SleepFut(by, dur) == [by |-> by, dur |-> dur]

\* Backoff::next on a finite schedule
BackoffNext(b)  == IF b = <<>> THEN None ELSE Some(Head(b))
BackoffAfter(b) == IF b = <<>> THEN b ELSE Tail(b)
\* Backoff::next on a schedule without a limit: the period starts over
BackoffCycle(b) == Append(Tail(b), Head(b))

\* nothing dropped yet
NoDrop == [ctx |-> 0, fut |-> FALSE, sl |-> FALSE]

\* ---- RetryWithContext::new ----
Init ==
    /\ schedule \in Schedules
    /\ backoff = schedule
    /\ endless \in {e \in BOOLEAN : e => schedule # <<>>}
    /\ given = None
    /\ dropped = NoDrop
    /\ retryable = Errs
    /\ notify = DefaultNotify
    /\ sleep_fn = DefaultSleeper
    /\ state = Idle(None)
    /\ pc = "caller"
    /\ last = "new"
    /\ out = None
    /\ fault = ""
    /\ log = <<>>

\* the builder methods consume self: they are only callable before the first poll
Configurable == pc = "caller" /\ last # "poll"

\* ---- RetryWithContext::sleep ----
\* mutant: the assertion is missing
SleepState_NoAssert(st) == [panic |-> FALSE, state |-> Idle(None)]

SleepState(st) ==
    IF st = Idle(None) THEN [panic |-> FALSE, state |-> Idle(None)]
    ELSE [panic |-> TRUE, state |-> st]

Sleep(sn) ==
    /\ Configurable
    /\ last' = "sleep"
    /\ LET r == SleepState(state)
       IN  IF r.panic
           THEN /\ pc' = "panicked"
                /\ fault' = SleepFault
                /\ UNCHANGED <<sleep_fn, state>>
           ELSE /\ sleep_fn' = sn
                /\ state' = r.state
                /\ UNCHANGED <<pc, fault>>
    /\ UNCHANGED <<schedule, backoff, retryable, notify, out, log, endless, given, dropped>>

\* ---- RetryWithContext::context ----
SetContext(context) ==
    /\ Configurable
    /\ last' = "context"
    /\ state' = Idle(Some(context))
    /\ given' = Some(context)
    /\ UNCHANGED <<schedule, backoff, retryable, notify, sleep_fn, pc, out, fault, log, endless, dropped>>

\* ---- RetryWithContext::when ----
\* mutant: when() rebuilds the driver with an empty Idle state, as sleep() does
When_ResetsState(rn) ==
    /\ Configurable
    /\ last' = "when"
    /\ retryable' = rn
    /\ state' = Idle(None)
    /\ UNCHANGED <<schedule, backoff, notify, sleep_fn, pc, out, fault, log, endless, given, dropped>>

When(rn) ==
    /\ Configurable
    /\ last' = "when"
    /\ retryable' = rn
    /\ UNCHANGED <<schedule, backoff, notify, sleep_fn, state, pc, out, fault, log, endless, given, dropped>>

\* ---- RetryWithContext::notify ----
Notify(nn) ==
    /\ Configurable
    /\ last' = "notify"
    /\ notify' = nn
    /\ UNCHANGED <<schedule, backoff, retryable, sleep_fn, state, pc, out, fault, log, endless, given, dropped>>

\* ---- Future::poll: entry ----
Poll ==
    /\ pc = "caller"
    /\ last' = "poll"
    /\ pc' = "polling"
    /\ UNCHANGED <<schedule, backoff, retryable, notify, sleep_fn, state, out, fault, log, endless, given, dropped>>

\* panic!: unwinds out of poll, the driver is left as it was
Panic(msg) ==
    /\ pc' = "panicked"
    /\ fault' = msg

\* mutant: the outcome is produced but poll does not return
Ready_NoReturn(ctx, res) ==
    /\ pc' = pc
    /\ out' = Some([ctx |-> ctx, res |-> res])

\* mutant: a terminal error arm falls through instead of returning
Ready_NoReturnOnErr(ctx, res) ==
    IF res.ok
    THEN pc' = "ready" /\ out' = Some([ctx |-> ctx, res |-> res])
    ELSE pc' = pc /\ out' = out

\* mutant: resolves with the error of the first failed attempt
Ready_FirstErr(ctx, res) ==
    /\ pc' = "ready"
    /\ out' = Some([ctx |-> ctx,
                    res |-> IF ~res.ok /\ Len(log) >= 2 THEN log[2].res ELSE res])

\* mutant: resolves with the context the session started with
Ready_InitialCtx(ctx, res) ==
    /\ pc' = "ready"
    /\ out' = Some([ctx |-> log[1].ctx, res |-> res])

\* return Poll::Ready((ctx, res))
Ready(ctx, res) ==
    /\ pc' = "ready"
    /\ out' = Some([ctx |-> ctx, res |-> res])

\* mutant: the negation of line 332 dropped
Retryable_Negated(err) == err \notin retryable

\* mutant: the predicate is not consulted
Retryable_Always(err) == TRUE

\* (this.retryable)(&err)
Retryable(err) == err \in retryable

\* (this.notify)(&err, dur), as the installed callback sees it
NotifyCall(err, dur) == [ev |-> "notify", by |-> notify, err |-> err, dur |-> dur]

\* mutant: sleeps a fixed delay instead of the one the backoff returned
SleepCall_FixedDelay(dur) == SleepFut(sleep_fn, 1)

\* this.sleep_fn.sleep(dur): the awaitable the installed sleeper returns
SleepCall(dur) == SleepFut(sleep_fn, dur)

\* mutant: the suspension is created before notify is called
RetryCalls_SleepFirst(err, dur, sl) ==
    << [ev |-> "sleep", by |-> sl.by, dur |-> sl.dur], NotifyCall(err, dur) >>

\* lines 338-340: notify is called, then the sleeper
RetryCalls(err, dur, sl) ==
    << NotifyCall(err, dur), [ev |-> "sleep", by |-> sl.by, dur |-> sl.dur] >>

\* mutant: the context is not stored next to the suspension
ToSleep_DropCtx(ctx, sl) == Sleeping(None, sl)

\* mutant: the next attempt is scheduled without waiting for the suspension
ToSleep_NoWait(ctx, sl) == Idle(Some(ctx))

\* this.state = State::Sleeping((Some(ctx), sl))
ToSleep(ctx, sl) == Sleeping(Some(ctx), sl)

\* mutant: the context taken out of Sleeping is not put back
AfterSleep_NoCtx(ctx) == Idle(None)

\* mutant: the next attempt restarts from the context the session began with
AfterSleep_Reset(ctx) == Idle(Some(log[1].ctx))

\* this.state = State::Idle(Some(ctx)) once the suspension completed
AfterSleep(ctx) == Idle(Some(ctx))

\* mutant: a missing context is replaced by a default one instead of panicking
IdleArm_DefaultCtx ==
    /\ pc = "polling"
    /\ state.tag = "Idle"
    /\ endless => Len(SelectSeq(log, LAMBDA e : e.ev = "op")) < MaxAttempts
    /\ LET ctx == IF state.ctx = None THEN 0 ELSE Unwrap(state.ctx)
       IN  /\ log' = Append(log, [ev |-> "op", ctx |-> ctx])
           /\ state' = Polling(Fut(ctx))
           /\ UNCHANGED <<pc, fault>>
    /\ UNCHANGED <<schedule, backoff, retryable, notify, sleep_fn, last, out, endless, given, dropped>>

\* ---- poll, arm State::Idle (lines 314-319) ----
IdleArm ==
    /\ pc = "polling"
    /\ state.tag = "Idle"
    /\ endless => Len(SelectSeq(log, LAMBDA e : e.ev = "op")) < MaxAttempts
    /\ IF state.ctx = None
       THEN /\ Panic(ContextFault)
            /\ UNCHANGED <<state, log>>
       ELSE LET ctx == Unwrap(state.ctx)
            IN  /\ log' = Append(log, [ev |-> "op", ctx |-> ctx])
                /\ state' = Polling(Fut(ctx))
                /\ UNCHANGED <<pc, fault>>
    /\ UNCHANGED <<schedule, backoff, retryable, notify, sleep_fn, last, out, endless, given, dropped>>

\* ---- poll, arm State::Polling, ready!(fut.poll(cx)) is Pending (line 327) ----
PollingPending ==
    /\ pc = "polling"
    /\ state.tag = "Polling"
    /\ state.fut.ctx # None
    /\ pc' = "caller"
    /\ UNCHANGED <<schedule, backoff, retryable, notify, sleep_fn, state, last, out, fault, log, endless, given, dropped>>

\* ---- poll, arm State::Polling, fut yields (ctx, res) (lines 327-345) ----
PollingReady(ctx, res) ==
    /\ pc = "polling"
    /\ state.tag = "Polling"
    /\ state.fut.ctx # None
    /\ LET l1 == Append(log, [ev |-> "done", ctx |-> ctx, res |-> res])
       IN  IF res.ok
           THEN /\ Ready(ctx, Ok(res.val))
                /\ state' = Polling(FutDone)
                /\ log' = l1
                /\ UNCHANGED <<backoff, fault>>
           ELSE LET err == res.val
                    l2  == Append(l1, [ev |-> "retryable", err |-> err, ans |-> Retryable(err)])
                IN  IF ~Retryable(err)
                    THEN /\ Ready(ctx, Err(err))
                         /\ state' = Polling(FutDone)
                         /\ log' = l2
                         /\ UNCHANGED <<backoff, fault>>
                    ELSE LET nx == BackoffNext(backoff)
                             l3 == Append(l2, [ev |-> "next", ret |-> nx])
                         IN  /\ backoff' = IF endless THEN BackoffCycle(backoff)
                                            ELSE BackoffAfter(backoff)
                             /\ IF nx = None
                                THEN /\ Ready(ctx, Err(err))
                                     /\ state' = Polling(FutDone)
                                     /\ log' = l3
                                     /\ UNCHANGED fault
                                ELSE LET dur == Unwrap(nx)
                                         sl  == SleepCall(dur)
                                     IN  /\ log' = l3 \o RetryCalls(err, dur, sl)
                                         /\ state' = ToSleep(ctx, sl)
                                         /\ UNCHANGED <<pc, out, fault>>
    /\ UNCHANGED <<schedule, retryable, notify, sleep_fn, last, endless, given, dropped>>

\* mutant: a pending suspension is replaced by a new one on every poll
SleepingPending_Resleep ==
    /\ pc = "polling"
    /\ state.tag = "Sleeping"
    /\ pc' = "caller"
    /\ state' = Sleeping(state.ctx, SleepCall(state.sl.dur))
    /\ log' = Append(log, [ev |-> "sleep", by |-> sleep_fn, dur |-> state.sl.dur])
    /\ UNCHANGED <<schedule, backoff, retryable, notify, sleep_fn, last, out, fault,
                   endless, given, dropped>>

\* ---- poll, arm State::Sleeping, ready!(sl.poll(cx)) is Pending (line 354) ----
SleepingPending ==
    /\ pc = "polling"
    /\ state.tag = "Sleeping"
    /\ pc' = "caller"
    /\ UNCHANGED <<schedule, backoff, retryable, notify, sleep_fn, state, last, out, fault, log, endless, given, dropped>>

\* ---- poll, arm State::Sleeping, the suspension completed (lines 354-357) ----
SleepingReady ==
    /\ pc = "polling"
    /\ state.tag = "Sleeping"
    /\ IF state.ctx = None
       THEN /\ Panic(ContextFault)
            /\ log' = Append(log, [ev |-> "woke"])
            /\ UNCHANGED state
       ELSE /\ log' = Append(log, [ev |-> "woke"])
            /\ state' = AfterSleep(Unwrap(state.ctx))
            /\ UNCHANGED <<pc, fault>>
    /\ UNCHANGED <<schedule, backoff, retryable, notify, sleep_fn, last, out, endless, given, dropped>>

\* ---- drop glue of RetryWithContext: the caller abandons the driver ----
\* dropping State drops the variant's payload; an awaitable drops what it owns
DropGlue(st) ==
    IF st.tag = "Idle"
    THEN [ctx |-> IF st.ctx # None THEN 1 ELSE 0, fut |-> FALSE, sl |-> FALSE]
    ELSE IF st.tag = "Polling"
    THEN [ctx |-> IF st.fut.ctx # None THEN 1 ELSE 0, fut |-> TRUE, sl |-> FALSE]
    ELSE [ctx |-> IF st.ctx # None THEN 1 ELSE 0, fut |-> FALSE, sl |-> TRUE]

Drop ==
    /\ pc = "caller"
    /\ pc' = "dropped"
    /\ dropped' = DropGlue(state)
    /\ UNCHANGED <<schedule, backoff, retryable, notify, sleep_fn, state, last, out, fault, log,
                   endless, given>>

Next ==
    \/ \E sn \in Sleepers : Sleep(sn)
    \/ \E c \in Ctxs : SetContext(c)
    \/ \E rn \in SUBSET Errs : When(rn)
    \/ \E nn \in Notifiers : Notify(nn)
    \/ Poll
    \/ IdleArm
    \/ PollingPending
    \/ \E c \in Ctxs, r \in Results : PollingReady(c, r)
    \/ SleepingPending
    \/ SleepingReady
    \/ Drop

Spec == Init /\ [][Next]_vars

\* the caller keeps polling, poll's loop keeps running, and every operation
\* awaitable and every suspension completes after finitely many polls
Fairness ==
    /\ WF_vars(Poll)
    /\ WF_vars(IdleArm)
    /\ SF_vars(\E c \in Ctxs, r \in Results : PollingReady(c, r))
    /\ SF_vars(SleepingReady)

LiveSpec == Init /\ [][Next]_vars /\ Fairness

\* ---- history projections ----
Events(kind) == SelectSeq(log, LAMBDA e : e.ev = kind)
Ops      == Events("op")        \* invocations of future_fn
Dones    == Events("done")      \* completed attempts: what the awaitable yielded
Preds    == Events("retryable") \* predicate calls
Nexts    == Events("next")      \* backoff.next() calls
Notifies == Events("notify")    \* notify calls
Sleeps   == Events("sleep")     \* suspensions created
Wokes    == Events("woke")      \* suspensions completed

Resolved == pc = "ready"

\* the k-th delay the backoff yields
Yielded(k) == schedule[((k - 1) % Len(schedule)) + 1]
Pending  == pc = "caller" /\ last = "poll"

\* every attempt so far failed with an error the installed predicate accepts
AllFailAccepted ==
    \A i \in 1..Len(Dones) : ~Dones[i].res.ok /\ Dones[i].res.val \in retryable

\* C1: when the operation fails on every attempt and the predicate accepts every
\* error, a session whose backoff yields exactly N delays and then none resolves
\* after exactly N+1 invocations of the operation and exactly N notify calls,
\* the k-th of them carrying the k-th delay of the schedule (N = 0 included).
C1_ExhaustionCounts ==
    (Resolved /\ AllFailAccepted /\ ~endless) =>
        /\ Len(Ops) = Len(schedule) + 1
        /\ Len(Notifies) = Len(schedule)
        /\ \A k \in 1..Len(schedule) :
               Notifies[k].dur = schedule[k] /\ Notifies[k].by = notify

C1_Witness ==
    Resolved /\ AllFailAccepted /\ ~endless /\ schedule = <<1, 2>> /\ Len(Notifies) = 2

\* C2: if the predicate rejects the first error the operation produces, the
\* session resolves with that error after exactly one invocation, the backoff
\* is never queried and no suspension is created, whatever the schedule holds.
C2_RejectFirst ==
    (Len(Dones) >= 1 /\ ~Dones[1].res.ok /\ Dones[1].res.val \notin retryable) =>
        /\ Resolved
        /\ out = Some([ctx |-> Dones[1].ctx, res |-> Dones[1].res])
        /\ Len(Ops) = 1
        /\ Sleeps = <<>> /\ Nexts = <<>> /\ Notifies = <<>>
        /\ state.tag # "Sleeping"
        /\ backoff = schedule

C2_Witness ==
    /\ Len(Dones) = 1 /\ ~Dones[1].res.ok /\ Dones[1].res.val \notin retryable
    /\ Resolved
    /\ Len(schedule) = 2

\* C3: if attempt k succeeds (attempts 1..k-1 having failed with accepted errors
\* and the backoff having yielded k-1 delays), the session resolves with Ok of
\* attempt k's value and the context attempt k returned, after exactly k
\* invocations and exactly k-1 suspensions.
C3_SuccessAtK ==
    LET k == Len(Dones)
    IN  (k >= 1 /\ Dones[k].res.ok) =>
            /\ Resolved
            /\ out = Some([ctx |-> Dones[k].ctx, res |-> Ok(Dones[k].res.val)])
            /\ Len(Ops) = k
            /\ Len(Sleeps) = k - 1 /\ Len(Wokes) = k - 1
            /\ ~endless => k - 1 <= Len(schedule)
            /\ \A i \in 1..(k - 1) : ~Dones[i].res.ok /\ Dones[i].res.val \in retryable

C3_Witness ==
    /\ Resolved /\ Len(Dones) = 2 /\ Dones[2].res.ok
    /\ Dones[2].ctx # Ops[1].ctx /\ Dones[2].ctx # Dones[1].ctx
    /\ Unwrap(out).ctx = Dones[2].ctx
    /\ Len(schedule) = 2

\* C4: every notify call carries the error of the attempt that just failed and
\* the delay backoff.next() just returned, is followed at once by the creation
\* of the suspension with that same delay, and the delays seen by notify and by
\* the sleeper are, in order, the delays the backoff produced.
C4_NotifyPairs ==
    /\ \A i \in 1..Len(log) :
           log[i].ev = "notify" =>
               /\ i >= 4 /\ i + 1 <= Len(log)
               /\ log[i - 1].ev = "next" /\ log[i - 1].ret = Some(log[i].dur)
               /\ log[i - 3].ev = "done" /\ log[i - 3].res = Err(log[i].err)
               /\ log[i + 1].ev = "sleep" /\ log[i + 1].dur = log[i].dur
    /\ \A i \in 1..Len(log) :
           (log[i].ev = "next" /\ log[i].ret # None) =>
               i + 1 <= Len(log) /\ log[i + 1].ev = "notify"
    /\ Len(Notifies) = Len(Sleeps)
    /\ ~endless => Len(Notifies) <= Len(schedule)
    /\ \A k \in 1..Len(Notifies) :
           Notifies[k].dur = Yielded(k) /\ Sleeps[k].dur = Yielded(k)
    /\ state.tag = "Sleeping" =>
           Len(Sleeps) >= 1 /\ state.sl.dur = Sleeps[Len(Sleeps)].dur

C4_Witness ==
    /\ Len(Notifies) = 2
    /\ Notifies[1].dur # Notifies[2].dur
    /\ Notifies[1].err # Notifies[2].err
    /\ state.tag = "Sleeping"

\* C5: sleep() on a driver that already holds a context panics in that very
\* call, before any resumption and with the operation never invoked; the
\* fault never shows up later, at the first poll.
C5_SleepAfterContextFailsFast ==
    /\ [][ (last' = "sleep" /\ Configurable /\ state.ctx # None) =>
               /\ pc' = "panicked"
               /\ fault' = SleepFault
               /\ log' = <<>>
               /\ sleep_fn' = sleep_fn ]_vars
    /\ [](fault = SleepFault => (last = "sleep" /\ log = <<>> /\ out = None))
    /\ [](last = "poll" => fault # SleepFault)

C5_Witness ==
    fault = SleepFault /\ last = "sleep" /\ state.ctx # None /\ pc = "panicked"

\* who holds the context
HeldByIdle     == state.tag = "Idle" /\ state.ctx # None
HeldByFut      == state.tag = "Polling" /\ state.fut.ctx # None
HeldBySleeping == state.tag = "Sleeping" /\ state.ctx # None
HeldByOutput   == out # None
Owners ==
    (IF HeldByIdle THEN 1 ELSE 0) + (IF HeldByFut THEN 1 ELSE 0)
        + (IF HeldBySleeping THEN 1 ELSE 0) + (IF HeldByOutput THEN 1 ELSE 0)

\* the driver held a context when it was first polled
StartedWithContext == last = "poll" /\ (log # <<>> \/ state.ctx # None)

\* C6: in every state of a session started with a context, exactly one of the
\* Idle slot, the operation awaitable, the Sleeping slot and the resolved
\* output holds the context.
C6_OneOwner == (StartedWithContext /\ pc # "dropped") => Owners = 1

C6_Witness == StartedWithContext /\ HeldByOutput /\ Len(Wokes) >= 1 /\ Owners = 1

\* C7: for a driver polled with a context, every Pending return leaves it in
\* Polling or in Sleeping with the context present, and the "context must be
\* valid" panic is never reached.
C7_NoAbsentContext ==
    StartedWithContext =>
        /\ fault # ContextFault
        /\ pc # "panicked"
        /\ Pending => (HeldByFut \/ HeldBySleeping)
        /\ state.tag \in {"Idle", "Sleeping"} => state.ctx # None

C7_Witness ==
    StartedWithContext /\ Pending /\ HeldBySleeping /\ Len(Wokes) >= 1

\* the last thing the driver did was reject the error or find the backoff exhausted
TerminalFailure ==
    /\ log # <<>>
    /\ LET e == log[Len(log)]
       IN  \/ e.ev = "retryable" /\ e.err \notin retryable
           \/ e.ev = "next" /\ e.ret = None

\* C8: on both terminal failure paths (predicate rejects; backoff exhausted) the
\* session resolves with the error and the context the last attempt produced,
\* and an Err resolution arises on these paths only.
C8_TerminalError ==
    LET k == Len(Dones)
    IN  /\ TerminalFailure =>
               /\ Resolved
               /\ out = Some([ctx |-> Dones[k].ctx, res |-> Dones[k].res])
               /\ ~Dones[k].res.ok
        /\ (Resolved /\ ~Unwrap(out).res.ok) => TerminalFailure

C8_Witness ==
    /\ Resolved /\ TerminalFailure /\ Len(Dones) = 2
    /\ Dones[1].res # Dones[2].res /\ Dones[1].ctx # Dones[2].ctx
    /\ Unwrap(out).res = Dones[2].res

\* C9: a None from backoff.next() is the last call of the session: the driver
\* resolves with the current error in the step that received it, and no later
\* backoff query, invocation, predicate call, notify or sleep follows.
C9_ExhaustionIsFinal ==
    \A i \in 1..Len(log) :
        (log[i].ev = "next" /\ log[i].ret = None) =>
            /\ i = Len(log)
            /\ Resolved
            /\ out = Some([ctx |-> Dones[Len(Dones)].ctx, res |-> Dones[Len(Dones)].res])
            /\ ~Unwrap(out).res.ok
            /\ backoff = <<>>

C9_Witness ==
    /\ Resolved /\ Len(Nexts) = 3 /\ Nexts[3].ret = None
    /\ Len(Ops) = 3

\* C10: attempts are strictly sequential: at most one operation awaitable or one
\* suspension is outstanding, and every invocation after the first directly
\* follows, in this order, a failed attempt, an accepting predicate, a delay from
\* the backoff, notify, the creation of the suspension and its completion.
C10_Sequential ==
    /\ \A i \in 1..Len(log) :
           log[i].ev = "op" =>
               \/ i = 1
               \/ /\ i >= 8
                  /\ log[i - 1].ev = "woke"
                  /\ log[i - 2].ev = "sleep"
                  /\ log[i - 3].ev = "notify"
                  /\ log[i - 4].ev = "next" /\ log[i - 4].ret # None
                  /\ log[i - 5].ev = "retryable" /\ log[i - 5].err \in retryable
                  /\ log[i - 6].ev = "done" /\ ~log[i - 6].res.ok
                  /\ log[i - 7].ev = "op"
    /\ Len(Ops) - Len(Dones) \in {0, 1}
    /\ Len(Sleeps) - Len(Wokes) \in {0, 1}
    /\ ~(Len(Ops) > Len(Dones) /\ Len(Sleeps) > Len(Wokes))
    /\ (HeldByFut <=> (Len(Ops) > Len(Dones)))
    /\ ((state.tag = "Sleeping") <=> (Len(Sleeps) > Len(Wokes)))

C10_Witness == Len(Ops) = 3 /\ Len(Wokes) = 2 /\ HeldByFut

\* C11: when the driver is abandoned before it resolves, the teardown drops the
\* awaitable it holds (operation awaitable in Polling, suspension in Sleeping)
\* and drops the context exactly once, whichever state it is in.
C11_DropOnce ==
    (pc = "dropped" /\ given # None) =>
        /\ dropped.ctx = 1
        /\ dropped.fut <=> (state.tag = "Polling")
        /\ dropped.sl <=> (state.tag = "Sleeping")
        /\ out = None

C11_Witness ==
    /\ pc = "dropped" /\ given # None
    /\ state.tag = "Sleeping" /\ dropped.sl /\ dropped.ctx = 1
    /\ Len(Wokes) >= 1

\* C12: a session produces exactly one outcome: the output is set once, by a
\* step taken in Polling with the awaitable in flight, poll returns Ready in
\* that step, and afterwards no call is made and nothing changes.
C12_ResolveOnce ==
    /\ [][ out # None =>
               /\ out' = out /\ log' = log /\ backoff' = backoff
               /\ state' = state /\ pc' = pc ]_vars
    /\ [][ (out = None /\ out' # None) =>
               /\ state.tag = "Polling" /\ state.fut.ctx # None
               /\ pc' = "ready" ]_vars
    /\ [](Resolved <=> out # None)

C12_Witness ==
    Resolved /\ out # None /\ state = Polling(FutDone) /\ Len(Ops) = 2

\* C13: a driver that was never given a context panics with "context must be
\* valid" in its first poll, without calling the operation, the predicate, the
\* backoff, notify or the sleeper, and never resolves.
C13_NoContextNotRunnable ==
    /\ [][ (pc = "polling" /\ given = None) =>
               /\ pc' = "panicked" /\ fault' = ContextFault
               /\ log' = <<>> /\ backoff' = schedule /\ out' = None ]_vars
    /\ [](given = None => (log = <<>> /\ out = None /\ ~Resolved /\ backoff = schedule))

C13_Witness ==
    pc = "panicked" /\ fault = ContextFault /\ given = None /\ last = "poll" /\ log = <<>>

\* C14: if the driver keeps being polled (it is not abandoned), every awaitable
\* it holds completes and the backoff yields None after finitely many delays,
\* the session resolves; on a backoff that never yields None the session does
\* not resolve as long as every attempt fails with an accepted error.
C14_Termination ==
    /\ [](( StartedWithContext /\ ~endless) => <>(Resolved \/ pc = "dropped"))
    /\ []((endless /\ AllFailAccepted) => ~Resolved)

C14_Witness ==
    /\ endless /\ AllFailAccepted /\ Len(Dones) = MaxAttempts
    /\ Len(Notifies) = MaxAttempts /\ state.tag = "Sleeping"

\* C15: each failed attempt is followed by exactly one predicate call on its
\* error and a successful attempt by none; the backoff is queried exactly once
\* right after an accepting predicate call and never after a rejecting one or
\* after a success, so the predicate call always comes first.
C15_PredicateThenBackoff ==
    /\ \A i \in 1..Len(log) :
           /\ log[i].ev = "done" =>
                  IF log[i].res.ok
                  THEN i = Len(log)
                  ELSE /\ i + 1 <= Len(log)
                       /\ log[i + 1].ev = "retryable"
                       /\ log[i + 1].err = log[i].res.val
           /\ log[i].ev = "retryable" =>
                  /\ i >= 2 /\ log[i - 1].ev = "done" /\ log[i - 1].res = Err(log[i].err)
                  /\ IF log[i].err \in retryable
                     THEN i + 1 <= Len(log) /\ log[i + 1].ev = "next"
                     ELSE i = Len(log)
           /\ log[i].ev = "next" =>
                  i >= 3 /\ log[i - 1].ev = "retryable" /\ log[i - 1].err \in retryable
    /\ Len(Preds) = Cardinality({i \in 1..Len(Dones) : ~Dones[i].res.ok})
    /\ Len(Nexts) = Cardinality({i \in 1..Len(Preds) : Preds[i].err \in retryable})

C15_Witness ==
    /\ Resolved /\ Len(Preds) = 2 /\ Len(Nexts) = 1
    /\ Preds[1].err \in retryable /\ Preds[2].err \notin retryable

\* position of the last completed attempt in the history
LastDone == CHOOSE i \in 0..Len(log) :
                /\ i > 0 => log[i].ev = "done"
                /\ \A j \in (i + 1)..Len(log) : log[j].ev # "done"

\* C16: notify is called exactly once per delay the backoff returns, right
\* after that backoff call and before the suspension is created; the paths that
\* resolve the session (success, rejection, exhaustion) never call it.
C16_NotifyOncePerRetry ==
    /\ \A i \in 1..Len(log) :
           /\ (log[i].ev = "next" /\ log[i].ret # None) =>
                  /\ i + 2 <= Len(log)
                  /\ log[i + 1].ev = "notify"
                  /\ log[i + 2].ev = "sleep"
           /\ log[i].ev = "notify" =>
                  i >= 2 /\ log[i - 1].ev = "next" /\ log[i - 1].ret # None
           /\ log[i].ev = "woke" =>
                  i >= 3 /\ log[i - 1].ev = "sleep" /\ log[i - 2].ev = "notify"
    /\ Len(Notifies) = Cardinality({i \in 1..Len(Nexts) : Nexts[i].ret # None})
    /\ Resolved => \A j \in (LastDone + 1)..Len(log) : log[j].ev # "notify"

C16_Witness ==
    /\ Resolved /\ Len(Notifies) = 1 /\ Len(Dones) = 2 /\ Dones[2].res.ok
    /\ LastDone = Len(log)

\* C17: a poll that finds the held awaitable (operation awaitable in Polling,
\* suspension in Sleeping) not complete returns Pending leaving the state, the
\* context and every capability as they were and making no call; poll returns
\* only that way, by resolving, or by panicking, and calls are made only
\* inside poll.
C17_PendingFrame ==
    /\ [][ (pc = "polling" /\ pc' = "caller") =>
               /\ HeldByFut \/ HeldBySleeping
               /\ UNCHANGED <<state, log, backoff, out, fault, retryable, notify, sleep_fn>> ]_vars
    /\ [][ (pc = "polling" /\ pc' # "polling") =>
               \/ pc' = "caller"
               \/ pc' = "ready" /\ out' # None
               \/ pc' = "panicked" ]_vars
    /\ [][ log' # log => (pc = "polling" /\ pc' # "caller") ]_vars

C17_Witness == Pending /\ HeldByFut /\ Len(Ops) = 2 /\ Len(Wokes) = 1

\* C18: attempt 1 receives the context passed to context(), and attempt k+1
\* receives exactly the context attempt k returned; the Sleeping and Idle
\* slots in between hold that same context.
C18_ContextThreading ==
    /\ Len(Ops) >= 1 => (given # None /\ Ops[1].ctx = Unwrap(given))
    /\ \A k \in 1..(Len(Ops) - 1) : Ops[k + 1].ctx = Dones[k].ctx
    /\ (state.tag \in {"Idle", "Sleeping"} /\ Len(Dones) >= 1) =>
           state.ctx = Some(Dones[Len(Dones)].ctx)
    /\ (state.tag = "Idle" /\ Len(Dones) = 0) => state.ctx = given

C18_Witness ==
    /\ Len(Ops) = 3
    /\ Ops[1].ctx # Ops[2].ctx /\ Ops[2].ctx # Ops[3].ctx /\ Ops[1].ctx # Ops[3].ctx

\* C19: when() and notify() replace only their capability and leave the driver
\* state alone, with or without a context; the context supplied is still the
\* one attempt 1 receives; sleep() on a driver without context succeeds and
\* leaves backoff, predicate, notify callback and state as they were.
C19_BuilderFrame ==
    /\ [][ (last' = "when" /\ Configurable /\ pc' # "dropped") =>
               /\ state' = state /\ given' = given
               /\ notify' = notify /\ sleep_fn' = sleep_fn /\ backoff' = backoff
               /\ pc' = "caller" /\ fault' = "" /\ retryable' \subseteq Errs ]_vars
    /\ [][ (last' = "notify" /\ Configurable /\ pc' # "dropped") =>
               /\ state' = state /\ given' = given
               /\ retryable' = retryable /\ sleep_fn' = sleep_fn /\ backoff' = backoff
               /\ pc' = "caller" /\ fault' = "" /\ notify' \in Notifiers ]_vars
    /\ [][ (last' = "sleep" /\ Configurable /\ pc' # "dropped" /\ state = Idle(None)) =>
               /\ state' = Idle(None)
               /\ retryable' = retryable /\ notify' = notify /\ backoff' = backoff
               /\ pc' = "caller" /\ fault' = "" /\ sleep_fn' \in Sleepers ]_vars
    /\ []((Len(Ops) >= 1 /\ given # None) => Ops[1] = [ev |-> "op", ctx |-> Unwrap(given)])

C19_Witness ==
    /\ last = "when" /\ pc = "caller" /\ state.ctx # None /\ state.ctx = given
    /\ retryable # Errs /\ notify \in Notifiers /\ sleep_fn \in Sleepers

\* a session is running once the operation has been invoked
Running == log # <<>>

====
